---- MODULE Spec2Model ----
(***************************************************************************)
(* Authoritative 1v1 Pong server (src/unnamed/part_000): sessions, the     *)
(* matchmaking queue, rooms with their phase machine and physics, rematch  *)
(* voting, leave/disconnect and the keep-alive sweep.                      *)
(*                                                                         *)
(* Numbers are fixed point.  Lengths are in 1/1000 world unit, velocities  *)
(* in 1/1000 unit per second, times in ms, angles in mrad, fractions       *)
(* (paddle x, sin, cos) in 1/1000.  Date.now() is not stored: a room keeps *)
(* now - lastTickAt and nextPhaseAt - now, the only two quantities the     *)
(* code ever computes from the clock.                                      *)
(***************************************************************************)
EXTENDS Integers, Sequences, FiniteSets, TLC

\* ---------------------------------------------------------------- bounds
NumSessions == 2
MaxRooms == 1
MaxSteps == 2
Quantum == 1500

\* ------------------------------------------------------- program constants
Scale == 1000
W == 900000
H == 1600000
MAX_DT == 50
PADDING == 70000
PADDLE_WIDTH_FRAC == 280
PADDLE_HEIGHT_FRAC == 20
BALL_RADIUS_FRAC == 18
INIT_BALL_SPEED == 780000
MAX_BALL_SPEED == 1200000
MIN_BALL_SPEED == 100000
SPEED_UP == 1030
MAX_BOUNCE_ANGLE == 1050
HEARTS_START == 3
COUNTDOWN_MS == 3000
BETWEEN_MS == 1500
SERVE_SPREAD == 400

pw == (PADDLE_WIDTH_FRAC * W) \div Scale
ph == (PADDLE_HEIGHT_FRAC * H) \div Scale
r == (BALL_RADIUS_FRAC * W) \div Scale
topY == PADDING + ph \div 2
bottomY == H - (PADDING + ph \div 2)

Sessions == 1..NumSessions
Sides == {"top", "bottom"}
\* JavaScript null for a session reference or a room id
Null == 0
\* JavaScript NaN; every comparison with it is false
NaN == -999999

\* ------------------------------------------------------------ pure helpers
IsNaN(v) == v = NaN

MathMin(a, b) == IF IsNaN(a) \/ IsNaN(b) THEN NaN ELSE IF a < b THEN a ELSE b

MathMax(a, b) == IF IsNaN(a) \/ IsNaN(b) THEN NaN ELSE IF a > b THEN a ELSE b

clamp(v, min, max) == MathMax(min, MathMin(max, v))

Abs(v) == IF v < 0 THEN -v ELSE v

\* Number(msg.x) for the payloads a client can put in a frame
Number(raw) ==
  CASE raw.kind = "number" -> raw.v
    [] raw.kind = "null" -> 0
    [] OTHER -> NaN

\* sanitizeName: a missing, non-string or blank name becomes 'Player'
sanitizeName(raw) == IF raw = "" THEN "Player" ELSE raw

opponentSide(side) == IF side = "top" THEN "bottom" ELSE "top"

\* sin and cos of an angle in mrad, in 1/1000 (Taylor, |a| <= 1050)
SinPos(a) ==
  LET a2 == (a * a) \div Scale
      t3 == (a * a2) \div (6 * Scale)
      t5 == (t3 * a2) \div (20 * Scale)
      t7 == (t5 * a2) \div (42 * Scale)
  IN a - t3 + t5 - t7

Sin(a) == IF a < 0 THEN -SinPos(-a) ELSE SinPos(a)

Cos(a) ==
  LET a2 == (a * a) \div Scale
      t2 == a2 \div 2
      t4 == (t2 * a2) \div (12 * Scale)
      t6 == (t4 * a2) \div (30 * Scale)
      t8 == (t6 * a2) \div (56 * Scale)
  IN Scale - t2 + t4 - t6 + t8

\* ------------------------------------------------------------------ state
VARIABLES
  clients,       \* session -> the fields the server keeps on its socket object
  waitingQueue,  \* FIFO of sessions
  rooms,         \* ids in the registry (keys of the rooms Map)
  room,          \* id -> room object, for every object the registry or a timer holds
  nextId,        \* next fresh room id (uuidv4)
  steps,         \* id -> physics steps integrated so far (bounds the exploration)
  made,          \* rooms constructed so far (bounds the exploration)
  sent,          \* frames sent by the handler that ran last, in order
  scored,        \* misses onScore processed in the step that ran last, in order
  bounced,       \* paddle hits paddleBounce processed in the step that ran last
  misses,        \* id -> misses onScore has processed for the room so far
  overs,         \* session -> gameOver frames it has received for the room it is in
  crashed        \* an uncaught exception ended the process

vars ==
  <<clients, waitingQueue, rooms, room, nextId, steps, made, sent, scored, bounced,
    misses, overs, crashed>>

NoSession ==
  [connected |-> FALSE, readyState |-> "CLOSED", name |-> "Player",
   roomId |-> Null, side |-> "null", isAlive |-> FALSE]

\* the server's state as one value, threaded through a handler's statements
State ==
  [ws |-> clients, waitingQueue |-> waitingQueue, rooms |-> rooms, room |-> room,
   nextId |-> nextId, sent |-> <<>>, scored |-> <<>>, bounced |-> <<>>,
   crashed |-> crashed]

IsOpen(st, ws) == ws # Null /\ st.ws[ws].readyState = "OPEN"

safeSend(st, ws, msg) ==
  IF IsOpen(st, ws)
  THEN [st EXCEPT !.sent = Append(@, [to |-> ws, msg |-> msg])]
  ELSE st

Hearts(rm) == [top |-> rm.players.top.hearts, bottom |-> rm.players.bottom.hearts]

broadcastEvent(st, id, event) ==
  LET s1 == safeSend(st, st.room[id].players.top.ws, event)
  IN safeSend(s1, st.room[id].players.bottom.ws, event)

startLoops(st, id) ==
  [st EXCEPT !.room[id].loops = [tick |-> TRUE, send |-> TRUE]]

stopLoops(st, id) ==
  [st EXCEPT !.room[id].loops = [tick |-> FALSE, send |-> FALSE]]

\* destroyRoom that leaves the loops running
destroyRoom_keepLoops(st, roomId) ==
  IF roomId \notin st.rooms THEN st
  ELSE [st EXCEPT !.rooms = @ \ {roomId}]

destroyRoom(st, roomId) ==
  IF roomId \notin st.rooms THEN st
  ELSE [stopLoops(st, roomId) EXCEPT !.rooms = @ \ {roomId}]

NewRoom(st, id, top, bottom, serve) ==
  [id |-> id,
   players |-> [top |-> [ws |-> top, name |-> st.ws[top].name, hearts |-> HEARTS_START],
                bottom |-> [ws |-> bottom, name |-> st.ws[bottom].name,
                            hearts |-> HEARTS_START]],
   paddles |-> [topX |-> Scale \div 2, bottomX |-> Scale \div 2],
   ball |-> [x |-> W \div 2, y |-> H \div 2, vx |-> 0, vy |-> 0,
             speed |-> INIT_BALL_SPEED],
   phase |-> "countdown",
   serveToward |-> serve,
   nextPhaseAt |-> COUNTDOWN_MS,
   lastTickAt |-> 0,
   rematchVotes |-> [top |-> FALSE, bottom |-> FALSE],
   loops |-> [tick |-> FALSE, send |-> FALSE]]

MatchFound(rm, side) ==
  [type |-> "matchFound", roomId |-> rm.id,
   players |-> <<[name |-> rm.players.top.name, side |-> "top"],
                 [name |-> rm.players.bottom.name, side |-> "bottom"]>>,
   you |-> side, countdown |-> 3]

\* makeRoom(a, b, swapSides); coin is Math.random() < 0.5 of line 76, serve the
\* draw of line 97.  Writing a field of a null session throws.
makeRoom(st, a, b, swapSides, coin, serve) ==
  LET id == st.nextId
      top == IF swapSides \/ coin THEN a ELSE b
      bottom == IF swapSides \/ coin THEN b ELSE a
  IN IF top = Null THEN [st EXCEPT !.crashed = TRUE]
     ELSE IF bottom = Null THEN [st EXCEPT !.ws[top].side = "top", !.crashed = TRUE]
     ELSE
       LET s1 == [st EXCEPT !.ws[top].side = "top", !.ws[bottom].side = "bottom",
                            !.ws[top].roomId = id, !.ws[bottom].roomId = id]
           rm == NewRoom(s1, id, top, bottom, serve)
           s2 == [s1 EXCEPT !.nextId = id + 1,
                            !.rooms = @ \cup {id},
                            !.room = [i \in DOMAIN s1.room \cup {id} |->
                                        IF i = id THEN rm ELSE s1.room[i]]]
           s3 == safeSend(s2, top, MatchFound(rm, "top"))
           s4 == safeSend(s3, bottom, MatchFound(rm, "bottom"))
       IN startLoops(s4, id)

\* ---------------------------------------------------------------- physics
Le(a, b) == ~IsNaN(a) /\ ~IsNaN(b) /\ a <= b

\* paddles.topX * W: a fraction of the width, NaN if the paddle is NaN
Frac(x, len) == IF IsNaN(x) THEN NaN ELSE (x * len) \div Scale

Plus(a, b) == IF IsNaN(a) \/ IsNaN(b) THEN NaN ELSE a + b

\* angle is the draw of line 181; vy = dir * Math.cos(angle) is the cosine
\* alone, in units per second
serveBall(st, id, angle) ==
  LET dir == IF st.room[id].serveToward = "top" THEN -1 ELSE 1
      s == INIT_BALL_SPEED
  IN [st EXCEPT !.room[id].ball =
        [x |-> W \div 2, y |-> H \div 2, speed |-> s,
         vx |-> (s * Sin(angle)) \div Scale,
         vy |-> dir * Cos(angle)]]

\* paddleBounce that speeds the ball up without the upper limit
paddleBounce_unclamped(st, id, side, paddleCenterX) ==
  LET b == st.room[id].ball
      d == b.x - paddleCenterX
      q == (Abs(d) * Scale) \div (pw \div 2)
      rel == clamp(IF d < 0 THEN -q ELSE q, -Scale, Scale)
      newSpeed == (b.speed * SPEED_UP) \div Scale
      angle0 == (Abs(rel) * MAX_BOUNCE_ANGLE) \div Scale
      angle == IF rel < 0 THEN -angle0 ELSE angle0
      vx == IF angle < 0 THEN -((newSpeed * SinPos(-angle)) \div Scale)
            ELSE (newSpeed * SinPos(angle)) \div Scale
      vyAbs == Abs((newSpeed * Cos(angle)) \div Scale)
  IN [st EXCEPT !.room[id].ball =
        [b EXCEPT !.vx = vx,
                  !.vy = IF side = "top" THEN vyAbs ELSE -vyAbs,
                  !.speed = newSpeed],
                !.bounced = Append(@, [room |-> id, side |-> side])]

paddleBounce(st, id, side, paddleCenterX) ==
  LET b == st.room[id].ball
      d == b.x - paddleCenterX
      q == (Abs(d) * Scale) \div (pw \div 2)
      rel == clamp(IF d < 0 THEN -q ELSE q, -Scale, Scale)
      newSpeed == clamp((b.speed * SPEED_UP) \div Scale, MIN_BALL_SPEED, MAX_BALL_SPEED)
      angle0 == (Abs(rel) * MAX_BOUNCE_ANGLE) \div Scale
      angle == IF rel < 0 THEN -angle0 ELSE angle0
      vx == IF angle < 0 THEN -((newSpeed * SinPos(-angle)) \div Scale)
            ELSE (newSpeed * SinPos(angle)) \div Scale
      vyAbs == Abs((newSpeed * Cos(angle)) \div Scale)
  IN [st EXCEPT !.room[id].ball =
        [b EXCEPT !.vx = vx,
                  !.vy = IF side = "top" THEN vyAbs ELSE -vyAbs,
                  !.speed = newSpeed],
                !.bounced = Append(@, [room |-> id, side |-> side])]

endGame_keepMoving(st, id, winnerSide, reason) ==
  LET s1 == [st EXCEPT !.room[id].phase = "gameover"]
  IN broadcastEvent(s1, id,
       [type |-> "gameOver", winner |-> winnerSide, reason |-> reason,
        hearts |-> Hearts(s1.room[id])])

endGame(st, id, winnerSide, reason) ==
  LET s1 == [st EXCEPT !.room[id].phase = "gameover",
                       !.room[id].ball.vx = 0,
                       !.room[id].ball.vy = 0]
  IN broadcastEvent(s1, id,
       [type |-> "gameOver", winner |-> winnerSide, reason |-> reason,
        hearts |-> Hearts(s1.room[id])])

\* onScore that takes a heart from both sides
onScore_bothLose(st, id, loserSide) ==
  IF st.room[id].phase # "playing" THEN st
  ELSE
    LET winnerSide == opponentSide(loserSide)
        s1 == [st EXCEPT !.room[id].phase = "between",
                         !.room[id].players[loserSide].hearts =
                            IF @ - 1 > 0 THEN @ - 1 ELSE 0,
                         !.room[id].players[winnerSide].hearts =
                            IF @ - 1 > 0 THEN @ - 1 ELSE 0,
                         !.scored = Append(@, [room |-> id, side |-> loserSide])]
        s2 == broadcastEvent(s1, id,
                [type |-> "score", hearts |-> Hearts(s1.room[id]),
                 lastMiss |-> loserSide])
        topHearts == s2.room[id].players.top.hearts
        bottomHearts == s2.room[id].players.bottom.hearts
    IN IF topHearts <= 0 /\ bottomHearts <= 0 THEN endGame(s2, id, "null", "tie")
       ELSE IF s2.room[id].players[loserSide].hearts <= 0
         THEN endGame(s2, id, winnerSide, "hearts")
       ELSE [s2 EXCEPT !.room[id].serveToward = loserSide,
                       !.room[id].nextPhaseAt = BETWEEN_MS,
                       !.room[id].ball = [x |-> W \div 2, y |-> H \div 2, vx |-> 0,
                                          vy |-> 0, speed |-> INIT_BALL_SPEED]]

\* onScore that takes no heart
onScore_keepHearts(st, id, loserSide) ==
  IF st.room[id].phase # "playing" THEN st
  ELSE
    LET s1 == [st EXCEPT !.room[id].phase = "between",
                         !.scored = Append(@, [room |-> id, side |-> loserSide])]
        s2 == broadcastEvent(s1, id,
                [type |-> "score", hearts |-> Hearts(s1.room[id]),
                 lastMiss |-> loserSide])
    IN [s2 EXCEPT !.room[id].serveToward = loserSide,
                  !.room[id].nextPhaseAt = BETWEEN_MS,
                  !.room[id].ball = [x |-> W \div 2, y |-> H \div 2, vx |-> 0,
                                     vy |-> 0, speed |-> INIT_BALL_SPEED]]

\* onScore that never ends the game
onScore_noEnd(st, id, loserSide) ==
  IF st.room[id].phase # "playing" THEN st
  ELSE
    LET s1 == [st EXCEPT !.room[id].phase = "between",
                         !.room[id].players[loserSide].hearts =
                            IF @ - 1 > 0 THEN @ - 1 ELSE 0,
                         !.scored = Append(@, [room |-> id, side |-> loserSide])]
        s2 == broadcastEvent(s1, id,
                [type |-> "score", hearts |-> Hearts(s1.room[id]),
                 lastMiss |-> loserSide])
    IN [s2 EXCEPT !.room[id].serveToward = loserSide,
                  !.room[id].nextPhaseAt = BETWEEN_MS,
                  !.room[id].ball = [x |-> W \div 2, y |-> H \div 2, vx |-> 0,
                                     vy |-> 0, speed |-> INIT_BALL_SPEED]]

onScore(st, id, loserSide) ==
  IF st.room[id].phase # "playing" THEN st
  ELSE
    LET winnerSide == opponentSide(loserSide)
        s1 == [st EXCEPT !.room[id].phase = "between",
                         !.room[id].players[loserSide].hearts =
                            IF @ - 1 > 0 THEN @ - 1 ELSE 0,
                         !.scored = Append(@, [room |-> id, side |-> loserSide])]
        s2 == broadcastEvent(s1, id,
                [type |-> "score", hearts |-> Hearts(s1.room[id]),
                 lastMiss |-> loserSide])
        topHearts == s2.room[id].players.top.hearts
        bottomHearts == s2.room[id].players.bottom.hearts
    IN IF topHearts <= 0 /\ bottomHearts <= 0 THEN endGame(s2, id, "null", "tie")
       ELSE IF s2.room[id].players[loserSide].hearts <= 0
         THEN endGame(s2, id, winnerSide, "hearts")
       ELSE [s2 EXCEPT !.room[id].serveToward = loserSide,
                       !.room[id].nextPhaseAt = BETWEEN_MS,
                       !.room[id].ball = [x |-> W \div 2, y |-> H \div 2, vx |-> 0,
                                          vy |-> 0, speed |-> INIT_BALL_SPEED]]

\* dt in ms; a velocity times dt / 1000 is a displacement
integrate(st, id, dt) ==
  LET b0 == st.room[id].ball
      x1 == b0.x + (b0.vx * dt) \div Scale
      y1 == b0.y + (b0.vy * dt) \div Scale
      b == IF x1 - r <= 0 THEN [b0 EXCEPT !.x = r, !.y = y1, !.vx = Abs(b0.vx)]
           ELSE IF x1 + r >= W THEN [b0 EXCEPT !.x = W - r, !.y = y1, !.vx = -Abs(b0.vx)]
           ELSE [b0 EXCEPT !.x = x1, !.y = y1]
      s1 == [st EXCEPT !.room[id].ball = b]
      topX == Frac(st.room[id].paddles.topX, W)
      bottomX == Frac(st.room[id].paddles.bottomX, W)
      hitTop == /\ b.vy < 0
                /\ b.y - r <= topY + ph \div 2
                /\ b.y + r >= topY - ph \div 2
                /\ Le(Plus(topX, -(pw \div 2)), b.x + r)
                /\ Le(b.x - r, Plus(topX, pw \div 2))
      hitBottom == /\ b.vy > 0
                   /\ b.y + r >= bottomY - ph \div 2
                   /\ b.y - r <= bottomY + ph \div 2
                   /\ Le(Plus(bottomX, -(pw \div 2)), b.x + r)
                   /\ Le(b.x - r, Plus(bottomX, pw \div 2))
  IN IF hitTop THEN paddleBounce(s1, id, "top", topX)
     ELSE IF hitBottom THEN paddleBounce(s1, id, "bottom", bottomX)
     ELSE IF b.y + r < 0 THEN onScore(s1, id, "top")
     ELSE IF b.y - r > H THEN onScore(s1, id, "bottom")
     ELSE s1

\* tick that serves from any pause, gameover included
tick_fromGameover(st, id, angle) ==
  LET rm == st.room[id]
      elapsed == rm.lastTickAt
      dt == IF elapsed > MAX_DT THEN MAX_DT ELSE elapsed
      s1 == [st EXCEPT !.room[id].lastTickAt = 0]
  IN IF elapsed <= 0 THEN s1
     ELSE IF rm.phase # "playing"
       THEN IF rm.nextPhaseAt = 0
            THEN [serveBall(s1, id, angle) EXCEPT !.room[id].phase = "playing"]
            ELSE s1
     ELSE integrate(s1, id, dt)

\* tick that serves without waiting for nextPhaseAt
tick_earlyServe(st, id, angle) ==
  LET rm == st.room[id]
      elapsed == rm.lastTickAt
      dt == IF elapsed > MAX_DT THEN MAX_DT ELSE elapsed
      s1 == [st EXCEPT !.room[id].lastTickAt = 0]
  IN IF elapsed <= 0 THEN s1
     ELSE IF rm.phase # "playing"
       THEN IF rm.phase \in {"countdown", "between"}
            THEN [serveBall(s1, id, angle) EXCEPT !.room[id].phase = "playing"]
            ELSE s1
     ELSE integrate(s1, id, dt)

\* tick(room); lastTickAt holds now - lastTickAt, nextPhaseAt holds
\* max(0, nextPhaseAt - now); angle is the draw of serveBall
tick(st, id, angle) ==
  LET rm == st.room[id]
      elapsed == rm.lastTickAt
      dt == IF elapsed > MAX_DT THEN MAX_DT ELSE elapsed
      s1 == [st EXCEPT !.room[id].lastTickAt = 0]
  IN IF elapsed <= 0 THEN s1
     ELSE IF rm.phase # "playing"
       THEN IF rm.nextPhaseAt = 0 /\ rm.phase # "gameover"
                 /\ rm.phase \in {"countdown", "between"}
            THEN [serveBall(s1, id, angle) EXCEPT !.room[id].phase = "playing"]
            ELSE s1
     ELSE integrate(s1, id, dt)

StateFrame(rm, side) ==
  [type |-> "state", phase |-> rm.phase,
   ball |-> [x |-> rm.ball.x, y |-> rm.ball.y],
   paddles |-> rm.paddles, hearts |-> Hearts(rm),
   params |-> [W |-> W, H |-> H, r |-> r, pw |-> pw, ph |-> ph],
   you |-> side]

broadcastState(st, id) ==
  LET rm == st.room[id]
      s1 == safeSend(st, rm.players.top.ws, StateFrame(rm, "top"))
  IN safeSend(s1, rm.players.bottom.ws, StateFrame(rm, "bottom"))

\* ---------------------------------------------------------------- rematch
\* startRematch that leaves the old room registered
startRematch_keepOld(st, oldId, serve) ==
  LET a == st.room[oldId].players.top.ws
      b == st.room[oldId].players.bottom.ws
      s1 == [st EXCEPT !.room[oldId].rematchVotes = [top |-> FALSE, bottom |-> FALSE]]
      new == s1.nextId
      s2 == makeRoom(s1, a, b, TRUE, FALSE, serve)
  IN IF s2.crashed THEN s2
     ELSE broadcastEvent(s2, new, [type |-> "rematchStart", countdown |-> 3])

\* serve is the draw of makeRoom
startRematch(st, oldId, serve) ==
  LET a == st.room[oldId].players.top.ws
      b == st.room[oldId].players.bottom.ws
      s1 == [st EXCEPT !.room[oldId].rematchVotes = [top |-> FALSE, bottom |-> FALSE]]
      new == s1.nextId
      s2 == makeRoom(s1, a, b, TRUE, FALSE, serve)
  IN IF s2.crashed THEN s2
     ELSE
       LET s3 == [s2 EXCEPT !.room[new].players.top.hearts = HEARTS_START,
                            !.room[new].players.bottom.hearts = HEARTS_START,
                            !.room[new].phase = "countdown",
                            !.room[new].nextPhaseAt = COUNTDOWN_MS]
           s4 == broadcastEvent(s3, new, [type |-> "rematchStart", countdown |-> 3])
       IN destroyRoom(s4, oldId)

\* requestRematch that takes a vote in any phase
requestRematch_anyPhase(st, id, side, serve) ==
  LET s1 == [st EXCEPT !.room[id].rematchVotes[side] = TRUE]
      s2 == safeSend(s1, s1.room[id].players[opponentSide(side)].ws,
                     [type |-> "rematchOffered"])
  IN IF s2.room[id].rematchVotes.top /\ s2.room[id].rematchVotes.bottom
     THEN startRematch(s2, id, serve)
     ELSE s2

requestRematch(st, id, side, serve) ==
  IF st.room[id].phase # "gameover" THEN st
  ELSE
    LET s1 == [st EXCEPT !.room[id].rematchVotes[side] = TRUE]
        s2 == safeSend(s1, s1.room[id].players[opponentSide(side)].ws,
                       [type |-> "rematchOffered"])
    IN IF s2.room[id].rematchVotes.top /\ s2.room[id].rematchVotes.bottom
       THEN startRematch(s2, id, serve)
       ELSE s2

\* leaveRoom that forgets to clear the player slot
leaveRoom_keepSlot(st, ws) ==
  IF st.ws[ws].roomId = Null THEN st
  ELSE [st EXCEPT !.ws[ws].roomId = Null, !.ws[ws].side = "null"]

leaveRoom(st, ws) ==
  IF st.ws[ws].roomId = Null THEN st
  ELSE IF st.ws[ws].roomId \notin st.rooms THEN [st EXCEPT !.ws[ws].roomId = Null]
  ELSE
    LET id == st.ws[ws].roomId
        side == st.ws[ws].side
        otherSide == opponentSide(side)
        s1 == IF st.room[id].phase # "gameover"
                 /\ IsOpen(st, st.room[id].players[otherSide].ws)
              THEN broadcastEvent(st, id,
                     [type |-> "gameOver", winner |-> otherSide,
                      reason |-> "disconnect", hearts |-> Hearts(st.room[id])])
              ELSE st
    IN IF side \notin Sides THEN [s1 EXCEPT !.crashed = TRUE]
       ELSE
         LET s2 == [s1 EXCEPT !.room[id].players[side].ws = Null]
             s3 == IF s2.room[id].players.top.ws = Null
                      /\ s2.room[id].players.bottom.ws = Null
                   THEN destroyRoom(s2, id) ELSE s2
         IN [s3 EXCEPT !.ws[ws].roomId = Null, !.ws[ws].side = "null"]

\* ------------------------------------------------------------ matchmaking
\* the queue without the first occurrence of ws (indexOf, splice)
Remove(q, ws) ==
  IF \E i \in 1..Len(q) : q[i] = ws
  THEN LET i == CHOOSE i \in 1..Len(q) : q[i] = ws /\ \A j \in 1..(i - 1) : q[j] # ws
       IN SubSeq(q, 1, i - 1) \o SubSeq(q, i + 1, Len(q))
  ELSE q

InQueue(q, ws) == \E i \in 1..Len(q) : q[i] = ws

RECURSIVE Pair(_, _, _)
Pair(st, coin, serve) ==
  IF Len(st.waitingQueue) < 2 THEN st
  ELSE
    LET a == st.waitingQueue[1]
        b == st.waitingQueue[2]
        s1 == [st EXCEPT !.waitingQueue = SubSeq(@, 3, Len(@))]
    IN IF a = Null \/ b = Null THEN Pair(s1, coin, serve)
       ELSE IF ~IsOpen(s1, a) \/ ~IsOpen(s1, b) THEN Pair(s1, coin, serve)
       ELSE Pair(makeRoom(s1, a, b, FALSE, coin, serve), coin, serve)

\* tryMatch without the filter of invalid queue items
tryMatch_noFilter(st, coin, serve) == Pair(st, coin, serve)

tryMatch(st, coin, serve) ==
  LET Valid(c) == c # Null /\ st.ws[c].readyState = "OPEN" /\ st.ws[c].roomId = Null
  IN Pair([st EXCEPT !.waitingQueue = SelectSeq(@, Valid)], coin, serve)

\* --------------------------------------------------------------- handlers
\* wss.on('connection')
onConnection(st, ws) ==
  LET s1 == [st EXCEPT !.ws[ws] = [connected |-> TRUE, readyState |-> "OPEN",
                                   name |-> "Player", roomId |-> Null,
                                   side |-> "null", isAlive |-> TRUE]]
  IN safeSend(s1, ws, [type |-> "hello", id |-> ws])

onJoinQueue(st, ws, rawName, coin, serve) ==
  LET s1 == [st EXCEPT !.ws[ws].name = sanitizeName(rawName)]
  IN IF s1.ws[ws].roomId = Null /\ ~InQueue(s1.waitingQueue, ws)
     THEN LET s2 == [s1 EXCEPT !.waitingQueue = Append(@, ws)]
              s3 == safeSend(s2, ws, [type |-> "finding",
                                      queueSize |-> Len(s2.waitingQueue)])
          IN tryMatch(s3, coin, serve)
     ELSE s1

onCancelQueue(st, ws) ==
  safeSend([st EXCEPT !.waitingQueue = Remove(@, ws)], ws, [type |-> "queueCancelled"])

onPaddle(st, ws, raw) ==
  IF st.ws[ws].roomId = Null \/ st.ws[ws].side \notin Sides THEN st
  ELSE IF st.ws[ws].roomId \notin st.rooms THEN st
  ELSE
    LET x == clamp(Number(raw), 0, Scale)
    IN IF st.ws[ws].side = "top"
       THEN [st EXCEPT !.room[st.ws[ws].roomId].paddles.topX = x]
       ELSE [st EXCEPT !.room[st.ws[ws].roomId].paddles.bottomX = x]

onRematchRequest(st, ws, serve) ==
  IF st.ws[ws].roomId = Null \/ st.ws[ws].side \notin Sides THEN st
  ELSE IF st.ws[ws].roomId \notin st.rooms THEN st
  ELSE requestRematch(st, st.ws[ws].roomId, st.ws[ws].side, serve)

onLeaveRoom(st, ws) == leaveRoom(st, ws)

onUnknown(st, ws) ==
  safeSend(st, ws, [type |-> "error", message |-> "Unknown message type"])

\* A frame that is no JSON object: text JSON.parse rejects, or the JSON
\* values null, a scalar (number, string, boolean) and an array.  Line 483
\* lets a value pass when it is truthy and typeof gives 'object', which an
\* array is; its msg.type is undefined and the switch takes the default.
onNonObject(st, ws, frame) ==
  CASE frame = "garbage" -> st
    [] frame = "null" -> st
    [] frame = "scalar" -> st
    [] frame = "array" -> onUnknown(st, ws)

\* a close handler that leaves the session in the queue
onClose_keepQueued(st, ws) ==
  LET s2 == leaveRoom(st, ws)
  IN IF s2.crashed THEN s2 ELSE [s2 EXCEPT !.ws[ws].connected = FALSE]

\* ws.on('close') and ws.on('error'): the same three statements
onClose(st, ws) ==
  LET s1 == [st EXCEPT !.waitingQueue = Remove(@, ws)]
      s2 == leaveRoom(s1, ws)
  IN IF s2.crashed THEN s2 ELSE [s2 EXCEPT !.ws[ws].connected = FALSE]

\* ws.ping(): a ping frame goes out on an open socket; on any other socket
\* ping throws and the sweep catches it
ping(st, ws) ==
  IF IsOpen(st, ws) THEN [st EXCEPT !.sent = Append(@, [to |-> ws, msg |-> [type |-> "ping"]])]
  ELSE st

\* sweep that terminates nobody
RECURSIVE sweep_noTerminate(_, _)
sweep_noTerminate(st, todo) ==
  IF todo = {} THEN st
  ELSE
    LET ws == CHOOSE c \in todo : TRUE
        s1 == IF ~st.ws[ws].isAlive
              THEN st
              ELSE ping([st EXCEPT !.ws[ws].isAlive = FALSE], ws)
    IN sweep_noTerminate(s1, todo \ {ws})

\* the keep-alive sweep over wss.clients; terminate() closes the socket, its
\* close event comes later
RECURSIVE sweep(_, _)
sweep(st, todo) ==
  IF todo = {} THEN st
  ELSE
    LET ws == CHOOSE c \in todo : TRUE
        s1 == IF ~st.ws[ws].isAlive
              THEN [st EXCEPT !.ws[ws].readyState = "CLOSED"]
              ELSE ping([st EXCEPT !.ws[ws].isAlive = FALSE], ws)
    IN sweep(s1, todo \ {ws})

\* a socket object lives in wss.clients from its connection to its close event
InServer(ws) == clients[ws].readyState = "OPEN" \/ clients[ws].connected

\* --------------------------------------------------------------- actions
NonObjects == {"garbage", "null", "scalar", "array"}
RawNames == {""}
RawXs == {[kind |-> "number", v |-> 1500], [kind |-> "missing", v |-> 0]}
Angles == {0, SERVE_SPREAD}

Live(st) ==
  [i \in {j \in DOMAIN st.room : j \in st.rooms \/ st.room[j].loops.tick
                                  \/ st.room[j].loops.send} |-> st.room[i]]

RoomIds == 1..(MaxRooms + 1)

Commit(st) ==
  /\ made + (st.nextId - nextId) <= MaxRooms
  /\ made' = made + (st.nextId - nextId)
  /\ clients' = st.ws
  /\ waitingQueue' = st.waitingQueue
  /\ rooms' = st.rooms
  /\ room' = Live(st)
  /\ nextId' = st.nextId
  /\ sent' = st.sent
  /\ scored' = st.scored
  /\ bounced' = st.bounced
  /\ misses' = [i \in RoomIds |->
                  IF i \in DOMAIN Live(st)
                  THEN misses[i] + Cardinality({k \in 1..Len(st.scored) :
                                                 st.scored[k].room = i})
                  ELSE 0]
  /\ overs' = [ws \in Sessions |->
                 LET got == Cardinality({k \in 1..Len(st.sent) :
                                           /\ st.sent[k].to = ws
                                           /\ st.sent[k].msg.type = "gameOver"})
                     joined == /\ st.ws[ws].roomId # Null
                               /\ st.ws[ws].roomId # clients[ws].roomId
                 IN IF st.ws[ws].roomId = Null THEN 0
                    ELSE IF joined THEN got
                    ELSE overs[ws] + got]
  /\ crashed' = st.crashed

CanSend(ws) == ~crashed /\ clients[ws].connected /\ clients[ws].readyState = "OPEN"

Connection(ws) ==
  /\ ~crashed /\ ~InServer(ws)
  /\ Commit(onConnection(State, ws))
  /\ UNCHANGED steps

JoinQueue(ws) ==
  /\ CanSend(ws)
  /\ \E rawName \in RawNames, coin \in BOOLEAN, serve \in Sides :
       Commit(onJoinQueue(State, ws, rawName, coin, serve))
  /\ UNCHANGED steps

CancelQueue(ws) ==
  /\ CanSend(ws)
  /\ Commit(onCancelQueue(State, ws))
  /\ UNCHANGED steps

Paddle(ws) ==
  /\ CanSend(ws)
  /\ \E raw \in RawXs : Commit(onPaddle(State, ws, raw))
  /\ UNCHANGED steps

RematchRequest(ws) ==
  /\ CanSend(ws)
  /\ \E serve \in Sides : Commit(onRematchRequest(State, ws, serve))
  /\ UNCHANGED steps

LeaveRoom(ws) ==
  /\ CanSend(ws)
  /\ Commit(onLeaveRoom(State, ws))
  /\ UNCHANGED steps

\* a frame that is not a JSON object
Malformed(ws) ==
  /\ CanSend(ws)
  /\ \E frame \in NonObjects : Commit(onNonObject(State, ws, frame))
  /\ UNCHANGED steps

UnknownType(ws) ==
  /\ CanSend(ws)
  /\ Commit(onUnknown(State, ws))
  /\ UNCHANGED steps

\* the peer goes away or the socket is terminated: readyState leaves OPEN
\* before the close event is delivered
SocketDown(ws) ==
  /\ CanSend(ws)
  /\ Commit([State EXCEPT !.ws[ws].readyState = "CLOSED"])
  /\ UNCHANGED steps

Close(ws) ==
  /\ ~crashed /\ clients[ws].connected /\ clients[ws].readyState = "CLOSED"
  /\ Commit(LET s == onClose(State, ws)
            IN IF s.crashed THEN s ELSE [s EXCEPT !.ws[ws] = NoSession])
  /\ UNCHANGED steps

\* a socket error: the socket is already closing when 'error' is emitted,
\* and its close event follows
Error(ws) ==
  /\ CanSend(ws)
  /\ Commit(LET s == onClose([State EXCEPT !.ws[ws].readyState = "CLOSED"], ws)
            IN [s EXCEPT !.ws[ws].connected = TRUE])
  /\ UNCHANGED steps

Pong(ws) ==
  /\ CanSend(ws) /\ ~clients[ws].isAlive
  /\ Commit([State EXCEPT !.ws[ws].isAlive = TRUE])
  /\ UNCHANGED steps

KeepAlive ==
  /\ ~crashed
  /\ Commit(sweep(State, {ws \in Sessions : clients[ws].connected}))
  /\ UNCHANGED steps

Tick(id) ==
  /\ ~crashed /\ id \in DOMAIN room /\ room[id].loops.tick
  /\ LET physics == room[id].phase = "playing" /\ room[id].lastTickAt > 0
     IN /\ physics => steps[id] < MaxSteps
        /\ steps' = IF physics THEN [steps EXCEPT ![id] = @ + 1] ELSE steps
  /\ \E angle \in Angles : Commit(tick(State, id, angle))

Broadcast(id) ==
  /\ ~crashed /\ id \in DOMAIN room /\ room[id].loops.send
  /\ Commit(broadcastState(State, id))
  /\ UNCHANGED steps

\* Quantum ms pass
Elapse ==
  /\ ~crashed
  /\ room' = [i \in DOMAIN room |->
               [room[i] EXCEPT
                  !.lastTickAt = IF @ + Quantum > MAX_DT THEN MAX_DT + 1 ELSE @ + Quantum,
                  !.nextPhaseAt = IF @ > Quantum THEN @ - Quantum ELSE 0]]
  /\ sent' = <<>>
  /\ scored' = <<>>
  /\ bounced' = <<>>
  /\ UNCHANGED <<clients, waitingQueue, rooms, nextId, steps, made, misses, overs,
                  crashed>>

\* the server as constructed: empty registries (lines 30-32)
Boot ==
  /\ clients = [ws \in Sessions |-> NoSession]
  /\ waitingQueue = <<>>
  /\ rooms = {}
  /\ room = [i \in {} |-> 0]
  /\ nextId = 1
  /\ misses = [i \in RoomIds |-> 0]

\* A match well under way, as the server reaches it from Boot: sessions 1 and
\* 2 were paired into room 1 (1 on top), side d has h hearts left and the
\* other side o, the last point was lost by d, the ball was served straight
\* (angle 0) toward d while d's paddle stood at the right wall, and after
\* 16324 ticks of MAX_DT it is one tick short of leaving the court past d's
\* edge.  The serve moves the ball 0.05
\* unit per tick (serveBall), so these states lie 60000 to 400000 steps from
\* Boot; exploring from Boot with MaxSteps lifted, straight serves and paddle
\* frames for the centre and the right wall reaches each of them.
InGame(ws, side) ==
  [connected |-> TRUE, readyState |-> "OPEN", name |-> "Player", roomId |-> 1,
   side |-> side, isAlive |-> TRUE]

MidGame(d, h, o) ==
  /\ clients = [ws \in Sessions |->
                  IF ws = 1 THEN InGame(1, "top")
                  ELSE IF ws = 2 THEN InGame(2, "bottom") ELSE NoSession]
  /\ waitingQueue = <<>>
  /\ rooms = {1}
  /\ room = [i \in {1} |->
       [id |-> 1,
        players |-> [top |-> [ws |-> 1, name |-> "Player",
                              hearts |-> IF d = "top" THEN h ELSE o],
                     bottom |-> [ws |-> 2, name |-> "Player",
                                 hearts |-> IF d = "bottom" THEN h ELSE o]],
        paddles |-> [topX |-> IF d = "top" THEN Scale ELSE Scale \div 2,
                     bottomX |-> IF d = "bottom" THEN Scale ELSE Scale \div 2],
        ball |-> [x |-> W \div 2,
                  y |-> IF d = "top" THEN -r ELSE H + r,
                  vx |-> 0,
                  vy |-> IF d = "top" THEN -Cos(0) ELSE Cos(0),
                  speed |-> INIT_BALL_SPEED],
        phase |-> "playing",
        serveToward |-> d,
        nextPhaseAt |-> 0,
        lastTickAt |-> 0,
        rematchVotes |-> [top |-> FALSE, bottom |-> FALSE],
        loops |-> [tick |-> TRUE, send |-> TRUE]]]
  /\ nextId = 2
  /\ misses = [i \in RoomIds |->
                 IF i = 1 THEN (HEARTS_START - h) + (HEARTS_START - o) ELSE 0]

\* the scores of the matches under way in Init: <<hearts of d, hearts of o>>
Scores == {<<2, HEARTS_START>>, <<1, HEARTS_START>>, <<1, 1>>}

Init ==
  /\ \/ Boot
     \/ \E d \in Sides, sc \in Scores : MidGame(d, sc[1], sc[2])
  /\ steps = [i \in RoomIds |-> 0]
  /\ made = 0
  /\ sent = <<>>
  /\ scored = <<>>
  /\ bounced = <<>>
  /\ overs = [ws \in Sessions |-> 0]
  /\ crashed = FALSE

Next ==
  \/ \E ws \in Sessions :
       \/ Connection(ws)
       \/ JoinQueue(ws)
       \/ CancelQueue(ws)
       \/ Paddle(ws)
       \/ RematchRequest(ws)
       \/ LeaveRoom(ws)
       \/ Malformed(ws)
       \/ UnknownType(ws)
       \/ SocketDown(ws)
       \/ Close(ws)
       \/ Error(ws)
  \/ \E id \in RoomIds : Tick(id) \/ Broadcast(id)
  \/ Elapse

Spec == Init /\ [][Next]_vars

\* ----------------------------------------------------------------- claims
RoomOf(ws) == clients[ws].roomId

InRoom(ws) == RoomOf(ws) \in rooms /\ clients[ws].side \in Sides

Opponent(ws) == room[RoomOf(ws)].players[opponentSide(clients[ws].side)].ws

\* the three ways a session leaves: the leaveRoom frame, close, error
Leaves(ws) == LeaveRoom(ws) \/ Close(ws) \/ Error(ws)

ForfeitCase(ws) ==
  /\ InRoom(ws)
  /\ room[RoomOf(ws)].phase # "gameover"
  /\ IsOpen(State, Opponent(ws))

ForfeitDone(ws) ==
  LET id == RoomOf(ws)
      other == opponentSide(clients[ws].side)
  IN /\ id \in rooms'
     /\ room'[id].phase = "gameover"
     /\ Hearts(room'[id]) = Hearts(room[id])
     /\ \E i \in 1..Len(sent') :
          sent'[i] = [to |-> Opponent(ws),
                      msg |-> [type |-> "gameOver", winner |-> other,
                               reason |-> "disconnect", hearts |-> Hearts(room[id])]]

\* C1: when a session leaves (leaveRoom frame, close or error) a room that is
\* not in gameover while the other side's session is open, the room is in
\* gameover after the handler and the other side was sent gameOver with
\* itself as winner, reason disconnect and the hearts unchanged.
C1_ForfeitEndsMatch ==
  [][\A ws \in Sessions : Leaves(ws) /\ ForfeitCase(ws) => ForfeitDone(ws)]_vars

\* the vote of ws makes both votes of its gameover room true
RematchCase(ws) ==
  /\ InRoom(ws)
  /\ room[RoomOf(ws)].phase = "gameover"
  /\ room[RoomOf(ws)].rematchVotes[opponentSide(clients[ws].side)]

\* C2: when both rematch votes of a gameover room with A on top and B on
\* bottom become true, the rematch room has A on bottom and B on top, and
\* the side fields of A and B say so.
C2_RematchSwapsSides ==
  [][\A ws \in Sessions :
       RematchRequest(ws) /\ RematchCase(ws)
         /\ room[RoomOf(ws)].players.top.ws # Null
         /\ room[RoomOf(ws)].players.bottom.ws # Null
       => LET A == room[RoomOf(ws)].players.top.ws
              B == room[RoomOf(ws)].players.bottom.ws
          IN /\ clients'[A].side = "bottom"
             /\ clients'[B].side = "top"
             /\ \E n \in rooms' \ rooms :
                  room'[n].players.bottom.ws = A /\ room'[n].players.top.ws = B]_vars

\* ws was sent matchFound and, later in the same handler, rematchStart
GotRematchFrames(ws) ==
  \E i, j \in 1..Len(sent') :
    /\ i < j
    /\ sent'[i].to = ws /\ sent'[i].msg.type = "matchFound"
    /\ sent'[j].to = ws /\ sent'[j].msg.type = "rematchStart"

\* C3: when both rematch votes of a gameover room become true, a new room
\* holds the same two sessions with full hearts, phase countdown, no votes
\* and the ball at rest; both sessions point to it and were sent matchFound
\* and then rematchStart; the prior room has left the registry.
C3_RematchConstructs ==
  [][\A ws \in Sessions :
       RematchRequest(ws) /\ RematchCase(ws)
       => LET old == RoomOf(ws)
              A == room[old].players.top.ws
              B == room[old].players.bottom.ws
          IN /\ A # Null /\ B # Null
             /\ old \notin rooms'
             /\ \E n \in rooms' \ rooms :
                  /\ {room'[n].players.top.ws, room'[n].players.bottom.ws} = {A, B}
                  /\ Hearts(room'[n]) = [top |-> HEARTS_START, bottom |-> HEARTS_START]
                  /\ room'[n].phase = "countdown"
                  /\ room'[n].rematchVotes = [top |-> FALSE, bottom |-> FALSE]
                  /\ room'[n].ball.vx = 0 /\ room'[n].ball.vy = 0
                  /\ clients'[A].roomId = n /\ clients'[B].roomId = n
             /\ GotRematchFrames(A) /\ GotRematchFrames(B)]_vars

\* C4: no handler ends the process by writing through a null session or
\* room; a rematch is never started with an empty player slot.
C4_NoFatalError == ~crashed

\* C5: after the leaveRoom frame of a session is handled, the session is not
\* in the matchmaking queue.
C5_LeaveMessageDequeues ==
  \A ws \in Sessions :
    CanSend(ws) => ~InQueue(onLeaveRoom(State, ws).waitingQueue, ws)

\* what leaving does to the link between ws and its room
Unlinked(out, ws) ==
  /\ out.ws[ws].roomId = Null
  /\ out.ws[ws].side = "null"
  /\ \A id \in out.rooms :
       out.room[id].players.top.ws # ws /\ out.room[id].players.bottom.ws # ws
  /\ (InRoom(ws) /\ Opponent(ws) = Null) => RoomOf(ws) \notin out.rooms

\* C6: after the leaveRoom frame, the close or the error of a session, the
\* session has no room and no side, no registered room holds it in a slot,
\* and if it was the last session of its room that room is not registered.
C6_LeaveClearsBothSides ==
  \A ws \in Sessions :
    /\ CanSend(ws) => Unlinked(onLeaveRoom(State, ws), ws)
    /\ CanSend(ws) =>
         Unlinked(onClose([State EXCEPT !.ws[ws].readyState = "CLOSED"], ws), ws)
    /\ (~crashed /\ clients[ws].connected /\ clients[ws].readyState = "CLOSED")
         => Unlinked(onClose(State, ws), ws)

\* a session has left its room and the other one is still in it
C6_Witness ==
  \E id \in rooms :
    /\ room[id].players.top.ws = Null
    /\ room[id].players.bottom.ws # Null
    /\ \E ws \in Sessions : clients[ws].connected /\ clients[ws].roomId = Null

\* C7: in every room both paddle positions are numbers in [0, 1], whatever
\* the paddle frames carried.
C7_PaddlesInRange ==
  \A id \in DOMAIN room :
    /\ room[id].paddles.topX \in 0..Scale
    /\ room[id].paddles.bottomX \in 0..Scale

Holds(id, side, ws) == id \in rooms /\ room[id].players[side].ws = ws

\* C8: a session is in at most one player slot over all registered rooms,
\* the two slots of a room hold different sessions, and a session is in
\* slot s of room R exactly when its room reference is R and its side is s.
C8_AtMostOneRoom ==
  /\ \A ws \in Sessions :
       Cardinality({p \in rooms \X Sides : room[p[1]].players[p[2]].ws = ws}) <= 1
  /\ \A id \in rooms :
       room[id].players.top.ws # Null
         => room[id].players.top.ws # room[id].players.bottom.ws
  /\ \A ws \in Sessions, id \in RoomIds, side \in Sides :
       Holds(id, side, ws) <=> (clients[ws].roomId = id /\ clients[ws].side = side)

\* a rematch has moved both sessions of a room into a new room
C8_Witness ==
  \E id \in rooms :
    /\ room[id].players.top.ws # Null
    /\ room[id].players.bottom.ws # Null
    /\ clients[room[id].players.top.ws].roomId = id
    /\ clients[room[id].players.bottom.ws].roomId = id
    /\ \E i \in 1..Len(sent) : sent[i].msg.type = "rematchStart"

\* C9: in countdown, between and gameover the ball does not move.
C9_BallAtRestOutsidePlay ==
  \A id \in DOMAIN room :
    room[id].phase # "playing" => room[id].ball.vx = 0 /\ room[id].ball.vy = 0

\* a point was just lost and the ball is frozen until the next serve
C9_Witness ==
  \E id \in rooms :
    /\ room[id].phase = "between"
    /\ room[id].nextPhaseAt = BETWEEN_MS
    /\ room[id].players.bottom.hearts < HEARTS_START
    /\ room[id].ball.vy = 0

\* C10: hearts are never negative, and a room is in gameover exactly when
\* one side has no heart left.
C10_GameoverIffNoHearts ==
  \A id \in DOMAIN room :
    /\ room[id].players.top.hearts >= 0
    /\ room[id].players.bottom.hearts >= 0
    /\ room[id].phase = "gameover"
         <=> (room[id].players.top.hearts = 0 \/ room[id].players.bottom.hearts = 0)

\* the last heart was lost and the room is in gameover
C10_Witness ==
  \E id \in rooms :
    room[id].phase = "gameover" /\ room[id].players.top.hearts = 0

MaxMisses == 2 * HEARTS_START - 1

\* C11: a room that has processed 2 * HEARTS_START - 1 misses is in gameover,
\* it never processes more, and a room in gameover processes no miss.
C11_BoundedGameLength ==
  [][\A id \in RoomIds :
       /\ misses'[id] <= MaxMisses
       /\ (id \in DOMAIN room' /\ misses'[id] = MaxMisses)
            => room'[id].phase = "gameover"
       /\ (id \in DOMAIN room /\ room[id].phase = "gameover")
            => \A k \in 1..Len(scored') : scored'[k].room # id]_vars

\* the fifth miss of a room has ended its game
C11_Witness ==
  \E id \in rooms :
    /\ misses[id] = MaxMisses
    /\ room[id].phase = "gameover"
    /\ Len(scored) = 1

\* the ball's y after the move of the tick that starts in the current state
MovedY(id) ==
  LET dt == IF room[id].lastTickAt > MAX_DT THEN MAX_DT ELSE room[id].lastTickAt
  IN room[id].ball.y + (room[id].ball.vy * dt) \div Scale

ScoreFrame(id, side) ==
  [type |-> "score", hearts |-> Hearts(room'[id]), lastMiss |-> side]

\* C12: a step that processes a miss processes one; the room was playing; the
\* loser has one heart less and the other side's hearts are unchanged; the
\* loser is top exactly when the moved ball is past the top edge (y + r < 0)
\* and bottom exactly when it is past the bottom edge (y - r > H); each side
\* whose session is connected was sent score with lastMiss the loser and the
\* updated hearts; if the game goes on, serveToward is the loser.
C12_Scoring ==
  [][\A k \in 1..Len(scored') :
       LET id == scored'[k].room
           L == scored'[k].side
       IN /\ Len(scored') = 1
          /\ room[id].phase = "playing"
          /\ room'[id].players[L].hearts = room[id].players[L].hearts - 1
          /\ room'[id].players[opponentSide(L)].hearts
               = room[id].players[opponentSide(L)].hearts
          /\ L = "top" <=> MovedY(id) + r < 0
          /\ L = "bottom" <=> MovedY(id) - r > H
          /\ \A side \in Sides :
               IsOpen(State, room[id].players[side].ws)
               => \E i \in 1..Len(sent') :
                    sent'[i] = [to |-> room[id].players[side].ws,
                                msg |-> ScoreFrame(id, L)]
          /\ room'[id].phase # "gameover" => room'[id].serveToward = L]_vars

\* a miss was processed, both sides were sent score and the game goes on
C12_Witness ==
  \E id \in rooms :
    /\ Len(scored) = 1 /\ scored[1].room = id
    /\ room[id].phase = "between"
    /\ room[id].serveToward = scored[1].side
    /\ Cardinality({i \in 1..Len(sent) : sent[i].msg.type = "score"}) = 2

\* the room enters playing in this step
Served(id) ==
  /\ id \in DOMAIN room /\ id \in DOMAIN room'
  /\ room[id].phase # "playing"
  /\ room'[id].phase = "playing"

\* C13: every step into playing leaves the ball at the centre with speed
\* INIT_BALL_SPEED and velocity (INIT_BALL_SPEED * sin(theta),
\* dir * INIT_BALL_SPEED * cos(theta)) for a serve angle theta, dir being -1
\* toward top and +1 toward bottom.
C13_ServeVelocity ==
  [][\A id \in RoomIds :
       Served(id)
       => LET b == room'[id].ball
              dir == IF room'[id].serveToward = "top" THEN -1 ELSE 1
          IN /\ b.x = W \div 2 /\ b.y = H \div 2
             /\ b.speed = INIT_BALL_SPEED
             /\ \E theta \in Angles :
                  /\ b.vx = (INIT_BALL_SPEED * Sin(theta)) \div Scale
                  /\ b.vy = dir * ((INIT_BALL_SPEED * Cos(theta)) \div Scale)]_vars

AtCentreAtRest(b) == b.x = W \div 2 /\ b.y = H \div 2 /\ b.vx = 0 /\ b.vy = 0

\* C14: after every step that processes a miss, the final one included, and
\* after every step that creates a room, that room's ball is at the centre
\* (W/2, H/2) with zero velocity.
C14_BallResetOnScore ==
  [][/\ \A k \in 1..Len(scored') : AtCentreAtRest(room'[scored'[k].room].ball)
     /\ \A id \in rooms' \ rooms : AtCentreAtRest(room'[id].ball)]_vars

\* a live, unmatched session
Waiting(c) == IsOpen(State, c) /\ clients[c].roomId = Null

\* the joinQueue frame of ws is accepted: ws is appended to the queue
Enqueues(ws) == clients[ws].roomId = Null /\ ~InQueue(waitingQueue, ws)

\* the live, unmatched sessions of the queue once ws is appended, oldest first
LiveQueue(ws) == SelectSeq(Append(waitingQueue, ws), Waiting)

InNewRoom(c) ==
  \E n \in rooms' \ rooms, side \in Sides :
    /\ room'[n].players[side].ws = c
    /\ clients'[c].roomId = n /\ clients'[c].side = side
    /\ \E i \in 1..Len(sent') :
         sent'[i] = [to |-> c, msg |-> MatchFound(room'[n], side)]

\* C15: when an accepted joinQueue leaves two live, unmatched sessions in the
\* queue, the two oldest are taken out of the queue and put in one new room,
\* one on top and one on bottom, each sent matchFound with its own side; the
\* matchmaker puts no closed or already matched session in a new room; and a
\* live, unmatched session of the queue stays queued unless it is paired.
C15_FifoPairing ==
  [][\A ws \in Sessions :
       /\ (Enqueues(ws) /\ Len(LiveQueue(ws)) >= 2 /\ JoinQueue(ws))
            => LET a == LiveQueue(ws)[1]
                   b == LiveQueue(ws)[2]
               IN /\ InNewRoom(a) /\ InNewRoom(b)
                  /\ clients'[a].roomId = clients'[b].roomId
                  /\ clients'[a].side # clients'[b].side
                  /\ ~InQueue(waitingQueue', a) /\ ~InQueue(waitingQueue', b)
       /\ (rooms' # rooms /\ JoinQueue(ws))
            => \A n \in rooms' \ rooms, side \in Sides :
                 Waiting(room'[n].players[side].ws)
       /\ (Enqueues(ws) /\ waitingQueue' # Append(waitingQueue, ws) /\ JoinQueue(ws))
            => \A i \in 1..Len(LiveQueue(ws)) :
                 InQueue(waitingQueue', LiveQueue(ws)[i])
                   \/ InNewRoom(LiveQueue(ws)[i])]_vars

\* a joinQueue frame has paired the two waiting sessions
C15_Witness ==
  /\ waitingQueue = <<>>
  /\ \E i \in 1..Len(sent) : sent[i].msg.type = "finding" /\ sent[i].msg.queueSize = 2
  /\ \E id \in rooms :
       /\ room[id].phase = "countdown"
       /\ room[id].players.top.ws # Null /\ room[id].players.bottom.ws # Null
       /\ Cardinality({i \in 1..Len(sent) : sent[i].msg.type = "matchFound"}) = 2

Looping(rm) == rm.loops.tick \/ rm.loops.send

\* C16: after every step a room with a running tick or broadcast loop is in
\* the registry, and no tick or broadcast runs for a room that is not in the
\* registry, the room a rematch replaced included.
C16_LoopsOnlyForRegistered ==
  [][\A id \in RoomIds :
       /\ (id \in DOMAIN room' /\ Looping(room'[id])) => id \in rooms'
       /\ id \notin rooms => ~(Tick(id) \/ Broadcast(id))]_vars

\* a rematch has replaced a room: the new room runs its loops, the old one
\* is gone with its loops
C16_Witness ==
  /\ \E i \in 1..Len(sent) : sent[i].msg.type = "rematchStart"
  /\ \E id \in rooms :
       /\ id > 1
       /\ DOMAIN room = {id}
       /\ room[id].loops.tick /\ room[id].loops.send

\* ws has no room, or its room is in countdown, playing or between
OutsideGameover(ws) ==
  \/ RoomOf(ws) = Null
  \/ InRoom(ws) /\ room[RoomOf(ws)].phase \in {"countdown", "playing", "between"}

\* C17: the rematchRequest frame of a session that has no room, or whose
\* room is in countdown, playing or between, records no vote, sends nothing
\* and changes no room, session or queue.
C17_RematchIgnoredOutsideGameover ==
  \A ws \in Sessions, serve \in Sides :
    (CanSend(ws) /\ OutsideGameover(ws)) => onRematchRequest(State, ws, serve) = State

\* a connected session is in a room between two points, another connected
\* session has no room
C17_Witness ==
  /\ \E ws \in Sessions :
       CanSend(ws) /\ InRoom(ws) /\ room[RoomOf(ws)].phase = "between"
  /\ \E ws \in Sessions : CanSend(ws) /\ RoomOf(ws) = Null

\* ------------------------------------------------------------- keep-alive
\* The sessions' handlers with the keep-alive sweep and the pong handler.
\* The room timers are left out: tick and broadcastState neither read nor
\* write a socket's isAlive flag or readyState.
NextKA ==
  \/ \E ws \in Sessions :
       \/ Connection(ws)
       \/ JoinQueue(ws)
       \/ CancelQueue(ws)
       \/ Paddle(ws)
       \/ RematchRequest(ws)
       \/ LeaveRoom(ws)
       \/ Malformed(ws)
       \/ UnknownType(ws)
       \/ SocketDown(ws)
       \/ Close(ws)
       \/ Error(ws)
       \/ Pong(ws)
  \/ KeepAlive

SpecKA == Init /\ [][NextKA]_vars

Terminated(ws) == clients[ws].connected /\ clients[ws].readyState = "CLOSED"

\* ws is out of the queue, of every room and of the client registry
Gone(ws) ==
  /\ ~clients[ws].connected
  /\ ~InQueue(waitingQueue, ws)
  /\ clients[ws].roomId = Null
  /\ \A id \in rooms, side \in Sides : room[id].players[side].ws # ws

\* what one sweep does to a socket of wss.clients
Swept(ws) ==
  IF ~clients[ws].isAlive
  THEN clients'[ws].readyState = "CLOSED"
  ELSE /\ clients'[ws].isAlive = FALSE
       /\ clients'[ws].readyState = clients[ws].readyState
       /\ clients[ws].readyState = "OPEN"
            => \E i \in 1..Len(sent') : sent'[i] = [to |-> ws, msg |-> [type |-> "ping"]]

\* the close handler of ws tells an open opponent that ws forfeits
ForfeitSent(ws) ==
  ForfeitCase(ws)
  => \E i \in 1..Len(sent') :
       /\ sent'[i].to = Opponent(ws)
       /\ sent'[i].msg.type = "gameOver"
       /\ sent'[i].msg.winner = opponentSide(clients[ws].side)
       /\ sent'[i].msg.reason = "disconnect"

\* C18: a sweep terminates each socket whose isAlive flag is false and, for
\* every other socket, clears the flag, leaves it connected and pings it;
\* only a pong sets a cleared flag again, so a socket that sends no pong
\* between two sweeps is terminated by the second; the close handler, which
\* the close event of a terminated socket runs, leaves the session out of
\* the queue, out of its room (its open opponent told of the forfeit) and
\* out of the client registry.
C18_KeepAlive ==
  /\ [][KeepAlive => \A ws \in Sessions : clients[ws].connected => Swept(ws)]_vars
  /\ [][\A ws \in Sessions :
          (clients[ws].connected /\ ~clients[ws].isAlive
             /\ clients'[ws].connected /\ clients'[ws].isAlive) => Pong(ws)]_vars
  /\ [][\A ws \in Sessions : Close(ws) => Gone(ws)' /\ ForfeitSent(ws)]_vars

\* a sweep has terminated one socket, in a room, and pinged the other
C18_Witness ==
  \E ws, other \in Sessions :
    /\ Terminated(ws) /\ ~clients[ws].isAlive /\ InRoom(ws)
    /\ CanSend(other) /\ ~clients[other].isAlive
    /\ sent = <<[to |-> other, msg |-> [type |-> "ping"]]>>

ErrorReply(ws) == [to |-> ws, msg |-> [type |-> "error", message |-> "Unknown message type"]]

\* C19: a frame that is not JSON or is JSON but no object gets no reply and
\* changes nothing; a frame with an unrecognized type gets exactly one reply
\* to its sender, error "Unknown message type", and changes nothing else;
\* neither closes the socket.
C19_BadFramesChangeNothing ==
  \A ws \in Sessions :
    CanSend(ws)
    => /\ \A frame \in NonObjects : onNonObject(State, ws, frame) = State
       /\ onUnknown(State, ws) = [State EXCEPT !.sent = <<ErrorReply(ws)>>]

\* C20: from a step that starts with a room in gameover until the room
\* leaves the registry, the room's phase, hearts, ball and serveToward do not
\* change, whichever tick, broadcast, frame, close or error the step is.
C20_GameoverAbsorbing ==
  [][\A id \in rooms :
       (room[id].phase = "gameover" /\ id \in rooms')
       => /\ room'[id].phase = "gameover"
          /\ Hearts(room'[id]) = Hearts(room[id])
          /\ room'[id].ball = room[id].ball
          /\ room'[id].serveToward = room[id].serveToward]_vars

\* a rematch vote was taken in a room in gameover, and the room still has
\* the hearts and the ball of the miss that ended the game
C20_Witness ==
  \E id \in rooms :
    /\ room[id].phase = "gameover"
    /\ room[id].rematchVotes.top /\ ~room[id].rematchVotes.bottom
    /\ room[id].players.top.hearts = 0
    /\ room[id].ball.y + r < 0
    /\ \E i \in 1..Len(sent) : sent[i].msg.type = "rematchOffered"

\* ------------------------------------------------------------ phase timers
\* The tick loop with the handlers that create, empty and destroy rooms.
NextTimers ==
  \/ \E ws \in Sessions :
       \/ Connection(ws)
       \/ JoinQueue(ws)
       \/ LeaveRoom(ws)
  \/ \E id \in RoomIds : Tick(id)
  \/ Elapse

\* setInterval keeps calling tick while the room's loop runs, and the clock
\* advances
SpecTimers ==
  /\ Init
  /\ [][NextTimers]_vars
  /\ \A id \in RoomIds : WF_vars(Tick(id))
  /\ WF_vars(Elapse)

Paused(id) == id \in rooms /\ room[id].phase \in {"countdown", "between"}

\* C21: a room enters playing only in a tick, from countdown or between,
\* not before nextPhaseAt, and with the ball serveBall gives in that tick;
\* the ball changes only in a tick that starts in playing or serves; and
\* while its tick loop runs and time advances, a room in countdown or
\* between enters playing unless it is destroyed first.
C21_PhaseTimers ==
  /\ [][\A id \in RoomIds :
          Served(id)
          => /\ room[id].phase \in {"countdown", "between"}
             /\ room[id].nextPhaseAt = 0
             /\ room[id].lastTickAt > 0
             /\ \E angle \in Angles :
                  room'[id].ball = serveBall(State, id, angle).room[id].ball
             /\ Tick(id)]_vars
  /\ [][\A id \in RoomIds :
          (id \in DOMAIN room /\ id \in DOMAIN room' /\ room'[id].ball # room[id].ball)
          => /\ room[id].phase = "playing" \/ Served(id)
             /\ Tick(id)]_vars
  /\ \A id \in RoomIds :
       Paused(id) ~> (id \notin rooms \/ room[id].phase = "playing" \/ crashed)

\* a room has waited out its countdown and a tick has served the ball
C21_Witness ==
  \E id \in rooms :
    /\ room[id].phase = "playing"
    /\ room[id].ball.y = H \div 2
    /\ room[id].ball.vy # 0
    /\ misses[id] = 0
    /\ room[id].lastTickAt = 0

\* ------------------------------------------------------------ rallies
\* Matches under way one tick before a paddle hit or a miss that follows
\* one: the first hit of a straight serve, the first and second hit of a
\* serve at the widest angle, the hit that takes the speed to the limit, a
\* hit at the limit, and a ball that has passed top's paddle after one hit.
\* Exploring from Boot with MaxSteps lifted reaches each of them between
\* 13635 and 14907 physics steps after the serve.
Rallies ==
  { [toward |-> "bottom", topX |-> Scale \div 2,
     ball |-> [x |-> 450000, y |-> 1481750, vx |-> 0, vy |-> 1000, speed |-> 780000]],
    [toward |-> "top", topX |-> Scale \div 2,
     ball |-> [x |-> 351450, y |-> 118218, vx |-> -304200, vy |-> -921, speed |-> 780000]],
    [toward |-> "bottom", topX |-> Scale \div 2,
     ball |-> [x |-> 569988, y |-> 122254, vx |-> -697351, vy |-> -400093, speed |-> 803400]],
    [toward |-> "top", topX |-> Scale \div 2,
     ball |-> [x |-> 450000, y |-> 129055, vx |-> 0, vy |-> -1179811, speed |-> 1179811]],
    [toward |-> "top", topX |-> Scale \div 2,
     ball |-> [x |-> 450000, y |-> 1450064, vx |-> 0, vy |-> 1200000, speed |-> 1200000]],
    [toward |-> "bottom", topX |-> Scale,
     ball |-> [x |-> 450000, y |-> -4490, vx |-> 0, vy |-> -803400, speed |-> 803400]] }

Rally(ry) ==
  /\ clients = [ws \in Sessions |->
                  IF ws = 1 THEN InGame(1, "top")
                  ELSE IF ws = 2 THEN InGame(2, "bottom") ELSE NoSession]
  /\ waitingQueue = <<>>
  /\ rooms = {1}
  /\ room = [i \in {1} |->
       [id |-> 1,
        players |-> [top |-> [ws |-> 1, name |-> "Player", hearts |-> HEARTS_START],
                     bottom |-> [ws |-> 2, name |-> "Player", hearts |-> HEARTS_START]],
        paddles |-> [topX |-> ry.topX, bottomX |-> Scale \div 2],
        ball |-> ry.ball,
        phase |-> "playing",
        serveToward |-> ry.toward,
        nextPhaseAt |-> 0,
        lastTickAt |-> 0,
        rematchVotes |-> [top |-> FALSE, bottom |-> FALSE],
        loops |-> [tick |-> TRUE, send |-> TRUE]]]
  /\ nextId = 2
  /\ misses = [i \in RoomIds |-> 0]

InitRally ==
  /\ \/ Boot
     \/ \E ry \in Rallies : Rally(ry)
  /\ steps = [i \in RoomIds |-> 0]
  /\ made = 0
  /\ sent = <<>>
  /\ scored = <<>>
  /\ bounced = <<>>
  /\ overs = [ws \in Sessions |-> 0]
  /\ crashed = FALSE

\* The room timers with the handlers that create and empty rooms and move
\* the paddles.
NextRally ==
  \/ \E ws \in Sessions :
       \/ Connection(ws)
       \/ JoinQueue(ws)
       \/ Paddle(ws)
       \/ LeaveRoom(ws)
  \/ \E id \in RoomIds : Tick(id) \/ Broadcast(id)
  \/ Elapse

SpecRally == InitRally /\ [][NextRally]_vars

Touched(log, id) == \E k \in 1..Len(log) : log[k].room = id

\* C22: a paddle bounce sets speed to min(speed * SPEED_UP, MAX_BALL_SPEED),
\* which lies in [100, MAX_BALL_SPEED] and is not below the speed before,
\* and leaves vy > 0 on top and vy < 0 on bottom; a serve and a miss that
\* does not end the match leave speed = INIT_BALL_SPEED; and no other step
\* changes the speed, so it never falls from one bounce of a rally to the
\* next.
C22_BounceSpeed ==
  /\ [][\A k \in 1..Len(bounced') :
          LET id == bounced'[k].room
              before == room[id].ball.speed
              b == room'[id].ball
          IN /\ Len(bounced') = 1
             /\ b.speed = MathMin((before * SPEED_UP) \div Scale, MAX_BALL_SPEED)
             /\ b.speed >= MIN_BALL_SPEED /\ b.speed <= MAX_BALL_SPEED
             /\ b.speed >= before
             /\ bounced'[k].side = "top" => b.vy > 0
             /\ bounced'[k].side = "bottom" => b.vy < 0]_vars
  /\ [][\A id \in RoomIds :
          Served(id) => room'[id].ball.speed = INIT_BALL_SPEED]_vars
  /\ [][\A k \in 1..Len(scored') :
          LET id == scored'[k].room
          IN room'[id].phase # "gameover" => room'[id].ball.speed = INIT_BALL_SPEED]_vars
  /\ [][\A id \in RoomIds :
          (id \in DOMAIN room /\ id \in DOMAIN room'
             /\ room'[id].ball.speed # room[id].ball.speed)
          => Touched(bounced', id) \/ Touched(scored', id)]_vars

\* the bounce on top's paddle that takes the ball to the speed limit
C22_Witness ==
  \E id \in rooms :
    /\ bounced = <<[room |-> id, side |-> "top"]>>
    /\ room[id].ball.speed = MAX_BALL_SPEED
    /\ room[id].ball.vy = MAX_BALL_SPEED
    /\ room[id].ball.vx = 0
    /\ room[id].phase = "playing"

\* ------------------------------------------------------------ one gameOver
\* C23: a session receives at most one gameOver for its room; a gameOver
\* never names as winner a side whose session has left the room; and a room
\* that a session has left sends no score and no gameOver to the session
\* that stayed.
C23_OneGameOver ==
  /\ [][\A ws \in Sessions : overs'[ws] <= 1]_vars
  /\ [][\A k \in 1..Len(sent') :
          (sent'[k].msg.type = "gameOver" /\ sent'[k].msg.winner \in Sides)
          => LET id == RoomOf(sent'[k].to)
             IN room[id].players[sent'[k].msg.winner].ws # Null]_vars
  /\ [][\A k \in 1..Len(sent') :
          sent'[k].msg.type \in {"score", "gameOver"}
          => LET id == RoomOf(sent'[k].to)
             IN \A side \in Sides : room[id].players[side].ws # Null]_vars

\* ------------------------------------------------------------ queue invariant
NoDuplicates(q) == \A i, j \in 1..Len(q) : q[i] = q[j] => i = j

\* C24: after every step the queue holds no session twice, no session with
\* a room reference, no session whose socket the server has forgotten, and
\* at most one session; a close or error handler leaves its session out of
\* the queue, and a session enters the queue only while its socket is open,
\* so it cannot come back after that handler.
C24_QueueInvariant ==
  /\ [][/\ NoDuplicates(waitingQueue')
        /\ Len(waitingQueue') <= 1
        /\ \A i \in 1..Len(waitingQueue') :
             LET c == waitingQueue'[i]
             IN /\ c \in Sessions
                /\ clients'[c].roomId = Null
                /\ clients'[c].connected]_vars
  /\ [][\A ws \in Sessions :
          InQueue(waitingQueue, ws) => ~(InQueue(waitingQueue', ws) /\ (Close(ws) \/ Error(ws)))]_vars
  /\ [][\A ws \in Sessions :
          (InQueue(waitingQueue', ws) /\ ~InQueue(waitingQueue, ws)) => CanSend(ws)]_vars

\* a session joined while a dead socket was still queued: it was told the
\* queue held two, the dead socket was filtered out, and it waits alone
C24_Witness ==
  \E ws \in Sessions, dead \in Sessions :
    /\ waitingQueue = <<ws>>
    /\ clients[ws].readyState = "OPEN" /\ clients[ws].roomId = Null
    /\ clients[dead].connected /\ clients[dead].readyState = "CLOSED"
    /\ \E i \in 1..Len(sent) :
         sent[i] = [to |-> ws, msg |-> [type |-> "finding", queueSize |-> 2]]

====
